---- MODULE Spec2Model ----
(***************************************************************************)
(* Model of the Covasim options store (covasim/settings.py, class Options).*)
(*                                                                         *)
(* Python values are modelled as strings: an int or bool is its decimal    *)
(* numeral (True = "1", False = "0", as Python's == conflates them), None  *)
(* is "None", a str is itself, and a dict object is the name of a heap     *)
(* cell ("o1", ...), so that two options holding the same dict object can  *)
(* be told from two options holding equal dicts.                           *)
(***************************************************************************)
EXTENDS Integers, Sequences, FiniteSets, TLC

VARIABLES options, optdesc, orig_options, heap, pl, loaded, last, constructed, ncalls

vars == <<options, optdesc, orig_options, heap, pl, loaded, last, constructed, ncalls>>

---------------------------------------------------------------------------
(* Module-level constants of settings.py *)

matplotlib_keys == {"backend", "style", "dpi", "font_size", "font_family"}

numba_keys == {"precision", "numba_parallel", "numba_cache"}

\* Insertion order of the keys in _set_default_options
KeyOrder ==
    << "verbose", "sep", "show", "close", "backend", "interactive", "style",
       "rc", "rc_simple", "dpi", "font_size", "font_family", "precision",
       "numba_parallel", "numba_cache" >>

OptionKeys == { KeyOrder[i] : i \in 1..Len(KeyOrder) }

\* The keyword preset of the 'jupyter' branch of set, in its dict order
jupyter_kwargs ==
    << [k |-> "dpi", v |-> "100"], [k |-> "show", v |-> "0"],
       [k |-> "close", v |-> "1"] >>

---------------------------------------------------------------------------
(* The render library (pylab) as far as settings.py calls it *)

\* pl.get_backend() at import: the host's interactive backend
HostBackend == "tkagg"

\* Backends pl.switch_backend can activate on the host
BackendsAvailable == {"tkagg", "agg"}

\* pl.style.available
StyleAvailable == {"ggplot"}

\* str.lower() on the style names the model uses
Lower(s) == IF s = "Covasim" THEN "covasim" ELSE s

\* Python truthiness of a modelled value
Truthy(v) == v \notin {"0", "", "None"}

\* "value in [None, 'default']"
IsDefaultRequest(v) == v \in {"None", "default"}

---------------------------------------------------------------------------
(* Python dicts passed as keyword arguments: sequences of [k, v] items with *)
(* distinct keys, in insertion order                                        *)

DictKeys(d) == { d[i].k : i \in 1..Len(d) }

DictGet(d, key) == d[CHOOSE i \in 1..Len(d) : d[i].k = key].v

\* d[key] = value: an existing key keeps its position, a new key is appended
DictSet(d, key, value) ==
    IF key \in DictKeys(d)
    THEN [i \in 1..Len(d) |-> IF d[i].k = key THEN [k |-> key, v |-> value] ELSE d[i]]
    ELSE Append(d, [k |-> key, v |-> value])

RECURSIVE MergeDicts(_, _)
\* sc.mergedicts(a, b): a copy of a updated with the items of b in order
MergeDicts(a, b) ==
    IF b = << >> THEN a
    ELSE MergeDicts(DictSet(a, Head(b).k, Head(b).v), Tail(b))

\* The items of the default mapping in its insertion order
OrigItems(orig) ==
    [i \in 1..Len(KeyOrder) |-> [k |-> KeyOrder[i], v |-> orig[KeyOrder[i]]]]

---------------------------------------------------------------------------
(* Options.set, lines 182-241 *)

\* sc.isstring(key) and 'jupyter' in key.lower()
IsJupyterKey(key) == Lower(key) = "jupyter"

\* Lines 186-207: the keyword dict the call works on, and whether that dict
\* is the default mapping itself (kwargs = self.orig_options). The notebook
\* format adjustment of lines 198-203 changes nothing the model keeps.
ResolveKwargs(key, value, kwargs, orig) ==
    IF key \in {"default", "defaults"}
    THEN [kw |-> OrigItems(orig), alias |-> TRUE]
    ELSE IF IsJupyterKey(key)
    THEN [kw |-> MergeDicts(jupyter_kwargs, kwargs), alias |-> FALSE]
    ELSE IF key # "None"
    THEN [kw |-> MergeDicts(kwargs, << [k |-> key, v |-> value] >>), alias |-> FALSE]
    ELSE [kw |-> kwargs, alias |-> FALSE]

\* HandleInteractive with line 217 left out: a truthy interactive that does
\* not force close
HandleInteractive_KeepsClose(kwargs, orig) ==
    IF "interactive" \notin DictKeys(kwargs) THEN kwargs
    ELSE LET raw == DictGet(kwargs, "interactive")
             interactive == IF IsDefaultRequest(raw) THEN orig["interactive"] ELSE raw
         IN  IF Truthy(interactive)
             THEN DictSet(DictSet(kwargs, "show", "1"), "backend", orig["backend"])
             ELSE DictSet(DictSet(kwargs, "show", "0"), "backend", "agg")

\* Lines 211-221: the expansion of interactive into show, close and backend,
\* written into kwargs
HandleInteractive(kwargs, orig) ==
    IF "interactive" \notin DictKeys(kwargs) THEN kwargs
    ELSE LET raw == DictGet(kwargs, "interactive")
             interactive == IF IsDefaultRequest(raw) THEN orig["interactive"] ELSE raw
         IN  IF Truthy(interactive)
             THEN DictSet(DictSet(DictSet(kwargs, "show", "1"), "close", "0"),
                          "backend", orig["backend"])
             ELSE DictSet(DictSet(kwargs, "show", "0"), "backend", "agg")

\* The default mapping after the call has written into kwargs: when kwargs
\* is the default mapping itself, the writes of lines 216-221 land in it
OrigAfter(orig, res, kw) ==
    IF res.alias THEN [k \in DOMAIN orig |-> DictGet(kw, k)] ELSE orig

\* Options.set_matplotlib_global, lines 291-309 (available_fonts is None
\* when set calls it)
SetMatplotlibGlobal(p, key, value) ==
    IF ~Truthy(value) THEN [pl |-> p, err |-> "ok"]
    ELSE CASE key = "font_size" -> [pl |-> [p EXCEPT !.font_size = value], err |-> "ok"]
           [] key = "dpi" -> [pl |-> [p EXCEPT !.dpi = value], err |-> "ok"]
           [] key = "backend" ->
                IF value \in BackendsAvailable
                THEN [pl |-> [p EXCEPT !.backend = value], err |-> "ok"]
                ELSE [pl |-> p, err |-> "BackendUnavailable"]
           [] key = "font_family" -> [pl |-> [p EXCEPT !.font_family = value], err |-> "ok"]
           [] key = "style" ->
                IF Lower(value) = "covasim"
                THEN [pl |-> [p EXCEPT !.style = "default"], err |-> "ok"]
                ELSE IF value \in StyleAvailable
                THEN [pl |-> [p EXCEPT !.style = value], err |-> "ok"]
                ELSE [pl |-> p, err |-> "InvalidStyle"]
           [] OTHER -> [pl |-> p, err |-> "KeyNotFound"]

\* options[key] = value on the live mapping (a new key is added)
Store(opts, key, value) ==
    [k \in DOMAIN opts \cup {key} |-> IF k = key THEN value ELSE opts[k]]

\* MarksReload with numba_keys cut down to its first entry
MarksReload_PrecisionOnly(key) == key = "precision"

\* Lines 234-235: whether the key marks the call for a reload
MarksReload(key) == key \in numba_keys

\* SetItemStep with the assignment of line 233 moved above the check of
\* line 225: an unrecognized key is stored before the error is raised
SetItemStep_StoresUnknown(st, key, value, orig) ==
    IF key \notin DOMAIN st.options
    THEN [st EXCEPT !.options = Store(st.options, key, value), !.err = "KeyNotFound"]
    ELSE IF IsDefaultRequest(value) /\ key \notin DOMAIN orig
    THEN [st EXCEPT !.err = "KeyNotFound"]
    ELSE LET v  == IF IsDefaultRequest(value) THEN orig[key] ELSE value
             s1 == [st EXCEPT !.options = Store(st.options, key, v),
                              !.events = Append(st.events, [e |-> "store", k |-> key]),
                              !.reload = st.reload \/ MarksReload(key)]
         IN  IF key \in matplotlib_keys
             THEN LET r == SetMatplotlibGlobal(s1.pl, key, v)
                  IN  [s1 EXCEPT !.pl = r.pl, !.err = r.err,
                                 !.events = Append(s1.events, [e |-> "render", k |-> key])]
             ELSE s1

\* Lines 225-237: the loop body for one item. st is the call's running
\* state: the live mapping, the render state, reload_required, the events
\* so far and the error raised, if any.
SetItemStep(st, key, value, orig) ==
    IF key \notin DOMAIN st.options
    THEN [st EXCEPT !.err = "KeyNotFound"]
    ELSE IF IsDefaultRequest(value) /\ key \notin DOMAIN orig
    THEN [st EXCEPT !.err = "KeyNotFound"]
    ELSE LET v  == IF IsDefaultRequest(value) THEN orig[key] ELSE value
             s1 == [st EXCEPT !.options = Store(st.options, key, v),
                              !.events = Append(st.events, [e |-> "store", k |-> key]),
                              !.reload = st.reload \/ MarksReload(key)]
         IN  IF key \in matplotlib_keys
             THEN LET r == SetMatplotlibGlobal(s1.pl, key, v)
                  IN  [s1 EXCEPT !.pl = r.pl, !.err = r.err,
                                 !.events = Append(s1.events, [e |-> "render", k |-> key])]
             ELSE s1

RECURSIVE SetLoop(_, _, _, _)
\* Lines 224-237: the loop over kwargs.items(); it stops at the first item
\* that raises, whose index it records
SetLoop(kw, i, st, orig) ==
    IF i > Len(kw) THEN st
    ELSE LET s1 == SetItemStep(st, kw[i].k, kw[i].v, orig)
         IN  IF s1.err # "ok" THEN [s1 EXCEPT !.at = i]
             ELSE SetLoop(kw, i + 1, s1, orig)

\* What reload_numba makes the numeric modules run with: the numba options
\* as they are when the modules are re-executed (lines 324-344)
NumbaOptions(opts) == [k \in numba_keys |-> opts[k]]

\* Lines 239-240: the reload after the loop
ReloadAfterLoop(st) == st.err = "ok" /\ st.reload

\* The whole of Options.set: the resulting live mapping, default mapping,
\* render state and loaded numba options, and the record of the call
SetResult(key, value, kwargs, opts, orig, p, ld) ==
    LET res   == ResolveKwargs(key, value, kwargs, orig)
        kw    == HandleInteractive(res.kw, orig)
        orig1 == OrigAfter(orig, res, kw)
        st0   == [options |-> opts, pl |-> p, reload |-> FALSE,
                  events |-> << >>, err |-> "ok", at |-> 0]
        st    == SetLoop(kw, 1, st0, orig1)
        doit  == ReloadAfterLoop(st)
    IN  [options |-> st.options,
         orig    |-> orig1,
         pl      |-> st.pl,
         loaded  |-> IF doit THEN NumbaOptions(st.options) ELSE ld,
         kw      |-> kw,
         err     |-> st.err,
         at      |-> st.at,
         events  |-> IF doit THEN Append(st.events, [e |-> "reload", k |-> "numba"])
                     ELSE st.events]

---------------------------------------------------------------------------
(* The other entries of the callable surface, lines 96-106 and 249-288.    *)
(* They all go straight to the live mapping self.options.                   *)

\* get written as item access: a missing key raises
GetResult_Raises(opts, key, fallback) ==
    IF key \in DOMAIN opts THEN [ret |-> opts[key], err |-> "ok"]
    ELSE [ret |-> "None", err |-> "KeyNotFound"]

\* get: dict.get of the live mapping, with the caller's fallback
GetResult(opts, key, fallback) ==
    IF key \in DOMAIN opts THEN [ret |-> opts[key], err |-> "ok"]
    ELSE [ret |-> fallback, err |-> "ok"]

\* setdefault: dict.setdefault of the live mapping
SetDefaultResult(opts, key, value) ==
    IF key \in DOMAIN opts THEN opts ELSE Store(opts, key, value)

RECURSIVE UpdateResult(_, _)
\* update: dict.update of the live mapping
UpdateResult(opts, items) ==
    IF items = << >> THEN opts
    ELSE UpdateResult(Store(opts, Head(items).k, Head(items).v), Tail(items))

\* "entry.current == entry.default" of get_help: dicts compare by content
SameValue(a, b, hp) ==
    IF a \in DOMAIN hp /\ b \in DOMAIN hp THEN hp[a] = hp[b] ELSE a = b

\* get_help: one entry per key of the default mapping, in its order
GetHelpEntries(opts, orig, hp) ==
    [i \in 1..Len(KeyOrder) |->
        [e |-> IF SameValue(opts[KeyOrder[i]], orig[KeyOrder[i]], hp)
               THEN "same" ELSE "modified",
         k |-> KeyOrder[i]]]

---------------------------------------------------------------------------
(* Construction, lines 89-94 and 121-179 *)

\* Values the environment can seed for the options read through int():
\* COVASIM_SHOW and COVASIM_CLOSE
EnvFlag == {"0", "1"}

\* Values of options.interactive: True when COVASIM_INTERACTIVE is unset,
\* else the variable's text, which is falsy only when empty
EnvInteractive == {"1", ""}

\* sc.dcp on the two dict-valued options: each copy is a new object
CopyOf(o) == IF o = "o1" THEN "o3" ELSE IF o = "o2" THEN "o4" ELSE o

\* _set_default_options: the live mapping for the given environment
DefaultOptions(show, close, interactive) ==
    [k \in OptionKeys |->
        CASE k = "verbose"        -> "0.1"
          [] k = "sep"            -> ","
          [] k = "show"           -> show
          [] k = "close"          -> close
          [] k = "backend"        -> HostBackend
          [] k = "interactive"    -> interactive
          [] k = "style"          -> "covasim"
          [] k = "rc"             -> "o1"
          [] k = "rc_simple"      -> "o2"
          [] k = "dpi"            -> "100"
          [] k = "font_size"      -> "10"
          [] k = "font_family"    -> "Rosario"
          [] k = "precision"      -> "32"
          [] k = "numba_parallel" -> "none"
          [] k = "numba_cache"    -> "1"]

\* _set_default_options: the help texts
DefaultOptdesc == [k \in OptionKeys |-> "help"]

\* self.orig_options = sc.dcp(self.options)
Dcp(opts) == [k \in DOMAIN opts |-> CopyOf(opts[k])]

\* The value an option holds: the content of the dict it refers to, or the
\* scalar itself
ValueOf(v, hp) == IF v \in DOMAIN hp THEN hp[v] ELSE v

\* What the model keeps of the latest operation: which it was, its arguments
\* (positional key and value, keyword dict), the keyword dict set iterated
\* over, the error raised ("ok" when none) and the index of the item that
\* raised it, the side effects in order, and the value returned
CallRecord(op, key, value, args, kw, err, at, events, ret) ==
    [op |-> op, key |-> key, value |-> value, args |-> args, kw |-> kw,
     err |-> err, at |-> at, events |-> events, ret |-> ret]

Init ==
    \E show \in EnvFlag, close \in EnvFlag, interactive \in EnvInteractive :
        /\ options = DefaultOptions(show, close, interactive)
        /\ optdesc = DefaultOptdesc
        /\ orig_options = Dcp(options)
        /\ heap = [o \in {"o1", "o2", "o3", "o4"} |->
                     IF o \in {"o1", "o3"} THEN "rc_covasim" ELSE "rc_simple"]
        /\ pl = [backend |-> HostBackend, style |-> "default", dpi |-> "100",
                 font_size |-> "10", font_family |-> "sans-serif"]
        /\ loaded = NumbaOptions(options)
        /\ last = CallRecord("init", "None", "None", << >>, << >>, "ok", 0, << >>, "None")
        /\ constructed = [k \in OptionKeys |-> ValueOf(orig_options[k], heap)]
        /\ ncalls = 0

---------------------------------------------------------------------------
(* Inputs *)

\* Most operations in one run of the program
MaxCalls == 2

\* A key no option has
UnknownKey == "foo"

\* A keyword dict of one item, and of two items in call order
Kw1(k1, v1) == << [k |-> k1, v |-> v1] >>

Kw2(k1, v1, k2, v2) == << [k |-> k1, v |-> v1], [k |-> k2, v |-> v2] >>

\* The keyword dicts callers pass to set
KwargsInputs ==
    { Kw1("show", "0"), Kw1("show", "1"), Kw1("close", "1"),
      Kw1("backend", "agg"), Kw1("backend", "nobackend"),
      Kw1("interactive", "1"), Kw1("interactive", "0"),
      Kw1("interactive", "default"),
      Kw1("style", "ggplot"), Kw1("style", "nostyle"), Kw1("style", "Covasim"),
      Kw1("precision", "64"), Kw1("rc", "default"), Kw1(UnknownKey, "1"),
      Kw2("interactive", "1", "show", "0"), Kw2("close", "1", "interactive", "1"),
      Kw2("interactive", "1", "backend", "agg"),
      Kw2("interactive", "0", "show", "1"), Kw2("close", "1", "interactive", "0"),
      Kw2("backend", "nobackend", "interactive", "0"),
      Kw2("precision", "64", "numba_parallel", "default"),
      Kw2("numba_cache", "0", "dpi", "150"),
      Kw2("precision", "64", UnknownKey, "1"),
      Kw2(UnknownKey, "1", "precision", "64"),
      Kw2("precision", "64", "style", "nostyle"),
      Kw2("precision", "64", "backend", "nobackend"),
      Kw2("style", "nostyle", UnknownKey, "1"),
      Kw2("show", "0", UnknownKey, "1"),
      Kw2(UnknownKey, "default", "interactive", "1") }

\* The calls of set: a positional key and value ("None" when absent) and a
\* keyword dict
SetInputs ==
    { [k |-> "None", v |-> "None", kw |-> d] : d \in KwargsInputs }
    \cup
    { [k |-> "default", v |-> "None", kw |-> << >>],
      [k |-> "defaults", v |-> "None", kw |-> << >>],
      [k |-> "jupyter", v |-> "None", kw |-> << >>],
      [k |-> "jupyter", v |-> "None", kw |-> Kw1("show", "1")],
      [k |-> "jupyter", v |-> "None", kw |-> Kw1("interactive", "1")],
      [k |-> "interactive", v |-> "None", kw |-> << >>],
      [k |-> "style", v |-> "default", kw |-> << >>],
      [k |-> "show", v |-> "default", kw |-> << >>],
      [k |-> "close", v |-> "default", kw |-> << >>],
      [k |-> "backend", v |-> "default", kw |-> << >>],
      [k |-> "rc_simple", v |-> "default", kw |-> << >>],
      [k |-> UnknownKey, v |-> "1", kw |-> << >>],
      [k |-> UnknownKey, v |-> "1", kw |-> Kw1("close", "1")],
      [k |-> "show", v |-> "0", kw |-> Kw1("show", "1")] }

\* The calls of the options object itself
CallInputs ==
    { [k |-> "defaults", v |-> "None", kw |-> << >>],
      [k |-> "None", v |-> "None", kw |-> Kw1("precision", "64")],
      [k |-> "None", v |-> "None", kw |-> Kw1("style", "nostyle")] }

\* The items callers pass to item assignment, setdefault and update
SurfaceItems == { [k |-> UnknownKey, v |-> "1"], [k |-> "close", v |-> "1"] }

---------------------------------------------------------------------------
(* Actions *)

SetAs(op, key, value, kwargs) ==
    LET r == SetResult(key, value, kwargs, options, orig_options, pl, loaded)
    IN  /\ options' = r.options
        /\ orig_options' = r.orig
        /\ pl' = r.pl
        /\ loaded' = r.loaded
        /\ last' = CallRecord(op, key, value, kwargs, r.kw, r.err, r.at, r.events, "None")
        /\ UNCHANGED <<optdesc, heap, constructed>>

\* options.set(key, value, **kwargs)
Set ==
    \E c \in SetInputs : SetAs("set", c.k, c.v, c.kw)

\* options(key, value, **kwargs), line 111
Call ==
    \E c \in CallInputs : SetAs("call", c.k, c.v, c.kw)

\* options.get(key) and options.get(key, fallback), line 101
Get ==
    \E key \in {"show", UnknownKey}, fallback \in {"None", "0"} :
        LET r == GetResult(options, key, fallback)
        IN  /\ last' = CallRecord("get", key, fallback, << >>, << >>, r.err, 0, << >>, r.ret)
            /\ UNCHANGED <<options, optdesc, orig_options, heap, pl, loaded, constructed>>

\* options[key] = value, line 98
SetItem ==
    \E it \in SurfaceItems :
        /\ options' = Store(options, it.k, it.v)
        /\ last' = CallRecord("setitem", it.k, it.v, << >>, << >>, "ok", 0, << >>, "None")
        /\ UNCHANGED <<optdesc, orig_options, heap, pl, loaded, constructed>>

\* options.setdefault(key, value), line 104
SetDefault ==
    \E it \in SurfaceItems :
        /\ options' = SetDefaultResult(options, it.k, it.v)
        /\ last' = CallRecord("setdefault", it.k, it.v, << >>, << >>, "ok", 0, << >>,
                              options'[it.k])
        /\ UNCHANGED <<optdesc, orig_options, heap, pl, loaded, constructed>>

\* options.update(**items), line 105
Update ==
    \E it \in SurfaceItems :
        /\ options' = UpdateResult(options, << it >>)
        /\ last' = CallRecord("update", "None", "None", << it >>, << >>, "ok", 0, << >>, "None")
        /\ UNCHANGED <<optdesc, orig_options, heap, pl, loaded, constructed>>

\* options.get_help(), lines 249-288
GetHelp ==
    /\ last' = CallRecord("get_help", "None", "None", << >>, << >>, "ok", 0,
                          GetHelpEntries(options, orig_options, heap), "None")
    /\ UNCHANGED <<options, optdesc, orig_options, heap, pl, loaded, constructed>>

\* options[key][...] = ... : an in-place edit of a dict-valued option
\* reached through item access (line 97) or get (line 101)
EditValue ==
    \E key \in {"rc", "rc_simple"} :
        /\ heap' = [heap EXCEPT ![options[key]] = "edited"]
        /\ last' = CallRecord("edit", key, "edited", << >>, << >>, "ok", 0, << >>, "None")
        /\ UNCHANGED <<options, optdesc, orig_options, pl, loaded, constructed>>

\* One operation of the program, counted
Step(A) == ncalls < MaxCalls /\ A /\ ncalls' = ncalls + 1

Next ==
    \/ Step(Set)
    \/ Step(Call)
    \/ Step(Get)
    \/ Step(SetItem)
    \/ Step(SetDefault)
    \/ Step(Update)
    \/ Step(GetHelp)
    \/ Step(EditValue)

Spec == Init /\ [][Next]_vars

---------------------------------------------------------------------------
(* Properties *)

\* The latest operation was a call of set, direct or through __call__
IsSetCall(rec) == rec.op \in {"set", "call"}

\* The indices of the events of one kind, or of one kind and key
EventsOf(rec, kind) == { i \in 1..Len(rec.events) : rec.events[i].e = kind }

EventsOfKey(rec, kind, key) ==
    { i \in EventsOf(rec, kind) : rec.events[i].k = key }

\* C1: the default mapping is never mutated after construction: in every
\* state each entry of orig_options has the value it was constructed with.
C1_DefaultsNeverMutated ==
    /\ DOMAIN orig_options = DOMAIN constructed
    /\ \A k \in DOMAIN constructed : ValueOf(orig_options[k], heap) = constructed[k]

\* C2: a reset restores the construction-time defaults: after set(k,
\* 'default') the value of k is the default k was constructed with, and
\* after set('defaults') that is so for every option.
C2_ResetRestoresConstructed ==
    /\ ( /\ IsSetCall(last)
         /\ last.key \in OptionKeys
         /\ IsDefaultRequest(last.value)
         /\ last.args = << >> )
       => ValueOf(options[last.key], heap) = constructed[last.key]
    /\ (IsSetCall(last) /\ last.key \in {"default", "defaults"})
       => \A k \in OptionKeys : ValueOf(options[k], heap) = constructed[k]

\* A style name that is neither 'covasim' in any case nor a style of the
\* render library (and is a name: not empty, not a request for the default)
UnknownStyle(name) ==
    /\ Lower(name) # "covasim"
    /\ name \notin StyleAvailable
    /\ Truthy(name)
    /\ ~IsDefaultRequest(name)

\* C3: set(style=s) with an unknown style name s fails with the invalid-style
\* error and leaves the style option as it was before the call.
C3_InvalidStyleLeavesStyle ==
    [][ ( /\ IsSetCall(last')
          /\ last'.key = "None"
          /\ Len(last'.args) = 1
          /\ last'.args[1].k = "style"
          /\ UnknownStyle(last'.args[1].v) )
        => ( /\ last'.err = "InvalidStyle"
             /\ options'["style"] = options["style"] ) ]_vars

C5_SameKeySets ==
    /\ DOMAIN options = DOMAIN orig_options
    /\ DOMAIN options = DOMAIN optdesc

\* The interactive value a call works with: the default one for a request
\* for the default
InteractiveOf(rec, orig) ==
    LET raw == DictGet(rec.kw, "interactive")
    IN  IF IsDefaultRequest(raw) THEN orig["interactive"] ELSE raw

\* C6: a successful set call whose overrides contain interactive ends with
\* show true, close false and the default backend when interactive is truthy,
\* and with show false and backend 'agg' when it is falsy, close then being
\* as before the call unless close was passed; explicit show, close and
\* backend passed in the same call do not change this.
C6_InteractiveExpansion ==
    [][ ( /\ IsSetCall(last')
          /\ last'.err = "ok"
          /\ "interactive" \in DictKeys(last'.kw) )
        => IF Truthy(InteractiveOf(last', orig_options))
           THEN /\ options'["show"] = "1"
                /\ options'["close"] = "0"
                /\ options'["backend"] = orig_options["backend"]
                /\ options'["backend"] = orig_options'["backend"]
           ELSE /\ options'["show"] = "0"
                /\ options'["backend"] = "agg"
                /\ "close" \notin DictKeys(last'.kw)
                   => options'["close"] = options["close"] ]_vars

\* A truthy interactive passed together with show=0: show ends true
C6_Witness ==
    /\ IsSetCall(last)
    /\ last.err = "ok"
    /\ last.args = Kw2("interactive", "1", "show", "0")
    /\ options["show"] = "1"
    /\ options["close"] = "0"

\* C7: a set call that completes without error reloads exactly once if its
\* overrides contain a numba key and not at all otherwise; the reload
\* comes last, after every key of the call was stored and after every
\* render update of the call.
C7_ReloadOnceAtEnd ==
    (IsSetCall(last) /\ last.err = "ok") =>
        /\ Cardinality(EventsOf(last, "reload")) =
              IF DictKeys(last.kw) \cap numba_keys # {} THEN 1 ELSE 0
        /\ \A r \in EventsOf(last, "reload") :
              /\ r = Len(last.events)
              /\ \A i \in 1..Len(last.kw) :
                    /\ \E j \in EventsOfKey(last, "store", last.kw[i].k) : j < r
                    /\ last.kw[i].k \in matplotlib_keys
                       => \E j \in EventsOfKey(last, "render", last.kw[i].k) : j < r
              /\ loaded = NumbaOptions(options)

\* Two numba keys in one call, one reload
C7_Witness ==
    /\ IsSetCall(last)
    /\ last.err = "ok"
    /\ last.args = Kw2("precision", "64", "numba_parallel", "default")
    /\ Cardinality(EventsOf(last, "reload")) = 1
    /\ options["precision"] = "64"

\* The indices of the items of a call whose key is not a key of the live
\* mapping
Unrecognized(rec, opts) ==
    { i \in 1..Len(rec.kw) : rec.kw[i].k \notin DOMAIN opts }

FirstOf(S) == CHOOSE i \in S : \A j \in S : i <= j

\* The live mapping with the first n items of kw applied, each a store of
\* the value passed, or of the default for a request for the default
WithPrefix(opts, orig, kw, n) ==
    [k \in DOMAIN opts |->
        IF \E i \in 1..n : kw[i].k = k
        THEN LET v == DictGet(kw, k)
             IN  IF IsDefaultRequest(v) THEN orig[k] ELSE v
        ELSE opts[k]]

\* The loop takes the item without raising: it has a default if it asks
\* for one, and the render library accepts it if it is a render key
ItemAccepted(item, orig) ==
    LET v == IF IsDefaultRequest(item.v) THEN orig[item.k] ELSE item.v
    IN  /\ IsDefaultRequest(item.v) => item.k \in DOMAIN orig
        /\ (item.k = "style" /\ Truthy(v))
           => (Lower(v) = "covasim" \/ v \in StyleAvailable)
        /\ (item.k = "backend" /\ Truthy(v)) => v \in BackendsAvailable

\* What C8 says of a call with an unrecognized key, the first at index j
FailsAtFirstUnrecognized(j) ==
    /\ last'.err = "KeyNotFound"
    /\ last'.at = j
    /\ options' = WithPrefix(options, orig_options, last'.kw, j - 1)
    /\ orig_options' = orig_options

\* C8 as stated: set fails with KeyNotFound at the first unrecognized key in
\* the iteration order of its overrides, and the state is that of applying
\* the keys before it and none at or after it.
C8_FailsAtFirstUnrecognized ==
    [][ (IsSetCall(last') /\ Unrecognized(last', options) # {})
        => FailsAtFirstUnrecognized(FirstOf(Unrecognized(last', options))) ]_vars

\* C8, amended: the same, provided no key before the first unrecognized one
\* raises an error of its own (an invalid style, an unavailable backend, a
\* request for a default that does not exist).
C8_FailsAtFirstUnrecognizedUnlessEarlierError ==
    [][ ( /\ IsSetCall(last')
          /\ Unrecognized(last', options) # {}
          /\ \A i \in 1..(FirstOf(Unrecognized(last', options)) - 1) :
                ItemAccepted(last'.kw[i], orig_options) )
        => FailsAtFirstUnrecognized(FirstOf(Unrecognized(last', options))) ]_vars

\* show=0 committed, then the unrecognized key raised
C8_Witness ==
    /\ IsSetCall(last)
    /\ last.kw = Kw2("show", "0", UnknownKey, "1")
    /\ last.err = "KeyNotFound"
    /\ last.at = 2
    /\ options["show"] = "0"
    /\ UnknownKey \notin DOMAIN options

\* C9: the current value of a dict-valued option is never the same object
\* as its default.
C9_DefaultsNotAliased ==
    \A k \in {"rc", "rc_simple"} : options[k] # orig_options[k]

\* C10: a set call that stored a value for a numba key has reloaded before
\* it returns, also when it ends with an error.
C10_StoredNumbaKeyReloaded ==
    (IsSetCall(last) /\ \E k \in numba_keys : EventsOfKey(last, "store", k) # {})
        => EventsOf(last, "reload") # {}

====
